---- MODULE Spec2Model ----
(***************************************************************************)
(* Model of the YT-DL Telegram bot (src/main.py): the URL validator, the   *)
(* message dispatch and the download_video handler with its collaborator   *)
(* calls (reply_to, YouTube, streams, filesize, stream_to_buffer,          *)
(* edit_message_text, send_video, delete_message), each of which may       *)
(* raise.  Text is modelled as sequences of one-character strings.         *)
(***************************************************************************)
EXTENDS Integers, Sequences, FiniteSets, TLC

VARIABLES
    pc,                    \* position of the running handler
    message,               \* the incoming message being handled
    lowestProgressiveOnly, \* behaviour of the installed get_lowest_resolution()
    duration,              \* yt.length
    duration_str,          \* the formatted duration
    streams,               \* yt.streams, in listing order
    stream,                \* the selected stream
    filesize,              \* what stream.filesize reported
    buffer,                \* the io.BytesIO buffer
    excDesc,               \* str(e) of the exception being handled
    interim,               \* what the interim status message shows
    log                    \* collaborator calls of this run, in order

vars == <<pc, message, lowestProgressiveOnly, duration, duration_str, streams,
          stream, filesize, buffer, excDesc, interim, log>>

\* ------------------------------------------------------------------ bounds
MaxStreams == 3
MaxDuration == 36100

\* ------------------------------------------------------- program constants
DurationLimit == 21600
SizeLimitMB == 2000
IdLen == 11
MiB == 1024 * 1024

\* ------------------------------------------------------------ text helpers
StartsAt(s, p, lit) ==
    /\ p >= 1
    /\ p + Len(lit) - 1 <= Len(s)
    /\ \A i \in 1..Len(lit) : s[p + i - 1] = lit[i]

Contains(s, lit) == \E p \in 1..Len(s) : StartsAt(s, p, lit)

UpperChars == <<"A","B","C","D","E","F","G","H","I","J","K","L","M",
                "N","O","P","Q","R","S","T","U","V","W","X","Y","Z">>
LowerChars == <<"a","b","c","d","e","f","g","h","i","j","k","l","m",
                "n","o","p","q","r","s","t","u","v","w","x","y","z">>

LowerChar(c) ==
    IF \E i \in 1..Len(UpperChars) : UpperChars[i] = c
    THEN LowerChars[CHOOSE i \in 1..Len(UpperChars) : UpperChars[i] = c]
    ELSE c

Lower(s) == [i \in 1..Len(s) |-> LowerChar(s[i])]

Whitespace == {" ", "\n", "\t"}

RECURSIVE LStrip(_)
LStrip(s) ==
    IF s # <<>> /\ Head(s) \in Whitespace THEN LStrip(Tail(s)) ELSE s

RECURSIVE RStrip(_)
RStrip(s) ==
    IF s # <<>> /\ s[Len(s)] \in Whitespace
    THEN RStrip(SubSeq(s, 1, Len(s) - 1))
    ELSE s

Strip(s) == RStrip(LStrip(s))

\* -------------------------------------------------------- is_youtube_url
\* A regular expression is run as the set of positions its prefix can end at.
After(s, P, lit) == {p + Len(lit) : p \in {q \in P : StartsAt(s, q, lit)}}

Optional(P, Q) == P \cup Q

\* .+ then lit: at least one character other than a newline, then lit
DotPlusThen(s, P, lit) ==
    {q + Len(lit) : q \in {r \in 1..Len(s) :
        /\ StartsAt(s, r, lit)
        /\ \E p \in P : p < r /\ \A i \in p..(r - 1) : s[i] # "\n"}}

L_http == <<"h","t","t","p",":","/","/">>
L_https == <<"h","t","t","p","s",":","/","/">>
L_www == <<"w","w","w",".">>
L_youtube == <<"y","o","u","t","u","b","e">>
L_youtu == <<"y","o","u","t","u">>
L_nocookie == <<"y","o","u","t","u","b","e","-","n","o","c","o","o","k","i","e">>
L_dot == <<".">>
L_com == <<"c","o","m">>
L_be == <<"b","e">>
L_slash == <<"/">>
L_watch == <<"w","a","t","c","h","?","v","=">>
L_embed == <<"e","m","b","e","d","/">>
L_v == <<"v","/">>
L_qv == <<"?","v","=">>

IdExcluded == {"&", "=", "%", "\n"}

\* {11} of any character
IdAt_AnyChar(s, p) == p + IdLen - 1 <= Len(s)

IdAt(s, p) ==
    /\ p + IdLen - 1 <= Len(s)
    /\ \A i \in p..(p + IdLen - 1) : s[i] \notin IdExcluded

is_youtube_url(url) ==
    LET P1 == Optional({1}, After(url, {1}, L_http) \cup After(url, {1}, L_https))
        P2 == Optional(P1, After(url, P1, L_www))
        P3 == After(url, P2, L_youtube) \cup After(url, P2, L_youtu)
                 \cup After(url, P2, L_nocookie)
        P4 == After(url, P3, L_dot)
        P5 == After(url, P4, L_com) \cup After(url, P4, L_be)
        P6 == After(url, P5, L_slash)
        P7 == Optional(P6, After(url, P6, L_watch) \cup After(url, P6, L_embed)
                 \cup After(url, P6, L_v) \cup DotPlusThen(url, P6, L_qv))
    IN \E p \in P7 : IdAt(url, p)

\* ------------------------------------------------------ duration formatting
Digits == <<"0","1","2","3","4","5","6","7","8","9">>

RECURSIVE Dec(_)
Dec(n) == IF n < 10 THEN <<Digits[n + 1]>> ELSE Dec(n \div 10) \o <<Digits[(n % 10) + 1]>>

\* {n:d}
Pad2_NoPad(n) == Dec(n)

\* {n:02d}
Pad2(n) == IF n < 10 THEN <<"0">> \o Dec(n) ELSE Dec(n)

FormatDuration(d) ==
    LET hours == d \div 3600
        minutes == (d % 3600) \div 60
        seconds == d % 60
    IN IF hours > 0
       THEN Dec(hours) \o <<":">> \o Pad2(minutes) \o <<":">> \o Pad2(seconds)
       ELSE Dec(minutes) \o <<":">> \o Pad2(seconds)

\* ------------------------------------------------------ policy thresholds
TooLong_AtLimit(d) == d >= DurationLimit

TooLong(d) == d > DurationLimit

\* what hasattr(stream, 'filesize') and stream.filesize can report
NoAttrSize == [attr |-> FALSE, known |-> FALSE, bytes |-> 0]
UnknownSize == [attr |-> TRUE, known |-> FALSE, bytes |-> 0]
KnownSize(n) == [attr |-> TRUE, known |-> TRUE, bytes |-> n]

\* hasattr(stream, 'filesize') and stream.filesize
SizeIsTruthy(fs) == fs.attr /\ fs.known /\ fs.bytes # 0

\* whole megabytes compared: 2000 MiB and a fraction passes
TooLarge_WholeMB(fs) == SizeIsTruthy(fs) /\ (fs.bytes \div MiB) > SizeLimitMB

\* file_size_mb = filesize / (1024 * 1024); file_size_mb > 2000
TooLarge(fs) == SizeIsTruthy(fs) /\ fs.bytes > SizeLimitMB * MiB

\* ------------------------------------------------------- stream selection
Variants == [progressive : BOOLEAN, ext : {"mp4", "webm"}, resolution : {360, 720, 1080}]

\* sorted(..., key=resolution): stable, ascending
RECURSIVE InsertSorted(_, _)
InsertSorted(q, x) ==
    IF q = <<>> THEN <<x>>
    ELSE IF q[Len(q)].resolution <= x.resolution THEN Append(q, x)
    ELSE Append(InsertSorted(SubSeq(q, 1, Len(q) - 1), x), q[Len(q)])

RECURSIVE OrderByResolution(_)
OrderByResolution(q) ==
    IF q = <<>> THEN <<>>
    ELSE InsertSorted(OrderByResolution(SubSeq(q, 1, Len(q) - 1)), q[Len(q)])

Desc(q) == [i \in 1..Len(q) |-> q[Len(q) + 1 - i]]

NoStream == [progressive |-> FALSE, ext |-> "", resolution |-> 0]

First(q) == IF q = <<>> THEN NoStream ELSE q[1]

IsProgressiveMp4(s) == s.progressive /\ s.ext = "mp4"

IsProgressive(s) == s.progressive

GetLowestResolution(q, progressiveOnly) ==
    IF progressiveOnly
    THEN First(OrderByResolution(SelectSeq(q, IsProgressiveMp4)))
    ELSE First(OrderByResolution(q))

\* tier 1 without .desc()
SelectStream_NoDesc(q, progressiveOnly) ==
    LET s1 == First(OrderByResolution(SelectSeq(q, IsProgressiveMp4)))
        s2 == IF s1 = NoStream THEN First(SelectSeq(q, IsProgressive)) ELSE s1
        s3 == IF s2 = NoStream THEN GetLowestResolution(q, progressiveOnly) ELSE s2
    IN s3

SelectStream(q, progressiveOnly) ==
    LET s1 == First(Desc(OrderByResolution(SelectSeq(q, IsProgressiveMp4))))
        s2 == IF s1 = NoStream THEN First(SelectSeq(q, IsProgressive)) ELSE s1
        s3 == IF s2 = NoStream THEN GetLowestResolution(q, progressiveOnly) ELSE s2
    IN s3

\* ------------------------------------------------- exception classification
K_unavailable == <<"u","n","a","v","a","i","l","a","b","l","e">>
K_403 == <<"4","0","3">>
K_timeout == <<"t","i","m","e","o","u","t">>

ApologyPrefix == "Sorry, I couldn't download this video."
S_unavailable == "The video might be private, deleted, or geo-restricted."
S_denied == "Access denied. The video might be age-restricted or private."
S_timeout == "Download timeout. Please try again."
S_generic == "Please try again later or with a different video."

\* the description is not lower-cased
Classify_CaseSensitive(desc) ==
    IF Contains(desc, K_unavailable) THEN S_unavailable
    ELSE IF Contains(desc, K_403) THEN S_denied
    ELSE IF Contains(desc, K_timeout) THEN S_timeout
    ELSE S_generic

Classify(desc) ==
    IF Contains(Lower(desc), K_unavailable) THEN S_unavailable
    ELSE IF Contains(desc, K_403) THEN S_denied
    ELSE IF Contains(Lower(desc), K_timeout) THEN S_timeout
    ELSE S_generic

\* ------------------------------------------------------------ message texts
Title == "title"

Text(kind) == [kind |-> kind, title |-> "", dur |-> <<>>, prefix |-> "",
               sentence |-> "", raw |-> <<>>]

WelcomeText == Text("welcome")
MediaPromptText == Text("send_link_as_text")
InvalidUrlText == Text("invalid_url")
ProcessingText == Text("processing")
TooLongText == Text("too_long")
NoStreamsText == Text("no_streams")
TooLargeText == Text("too_large")
DownloadingText(t, ds) == [Text("downloading") EXCEPT !.title = t, !.dur = ds]
UploadingText(t, ds) == [Text("uploading") EXCEPT !.title = t, !.dur = ds]
CaptionText(t, ds) == [Text("caption") EXCEPT !.title = t, !.dur = ds]
ErrorText(desc) ==
    [Text("error") EXCEPT !.prefix = ApologyPrefix, !.sentence = Classify(desc)]

NoText == Text("")
DeletedText == Text("deleted")

\* ------------------------------------------------------------------ inputs
VideoId == <<"d","Q","w","4","w","9","W","g","X","c","Q">>
T_watch == L_https \o L_www \o L_youtube \o L_dot \o L_com \o L_slash \o L_watch \o VideoId
T_short == <<" ", " ">> \o L_youtu \o L_dot \o L_be \o L_slash \o VideoId \o <<"\n">>
T_example == L_https \o <<"e","x","a","m","p","l","e",".","c","o","m","/">> \o L_watch \o VideoId
T_hello == <<"h","e","l","l","o">>
T_start == <<"/","s","t","a","r","t">>
T_help == <<"/","h","e","l","p">>
T_start_url == T_start \o <<" ">> \o T_watch

Messages ==
    [content_type : {"text"}, text : {T_watch, T_short, T_example, T_hello, T_start, T_help, T_start_url}]
    \cup [content_type : {"photo", "video", "document", "audio", "voice", "sticker"},
          text : {<<>>}]

NoMessage == [content_type |-> "", text |-> <<>>]

HandlerDurations == {59, 3661, DurationLimit, DurationLimit + 1}

FileSizes ==
    {NoAttrSize, UnknownSize, KnownSize(0), KnownSize(SizeLimitMB * MiB),
     KnownSize(SizeLimitMB * MiB + 1), KnownSize((SizeLimitMB + 1) * MiB)}

RECURSIVE SeqsUpTo(_, _)
SeqsUpTo(S, n) ==
    IF n = 0 THEN {<<>>}
    ELSE LET shorter == SeqsUpTo(S, n - 1)
         IN shorter \cup {Append(q, x) : q \in shorter, x \in S}

StreamLists == SeqsUpTo(Variants, MaxStreams)

D_video_unavailable == <<"V","i","d","e","o"," ","u","n","a","v","a","i","l","a","b","l","e">>
D_upper_unavailable_403 == <<"U","N","A","V","A","I","L","A","B","L","E"," ","4","0","3">>
D_error_403 == <<"E","r","r","o","r"," ","4","0","3">>
D_timeout_403 == <<"T","i","m","e","o","u","t"," ","4","0","3">>
D_read_timeout == <<"R","e","a","d"," ","T","I","M","E","O","U","T">>
D_boom == <<"b","o","o","m">>

Descriptions ==
    {D_video_unavailable, D_upper_unavailable_403, D_error_403, D_timeout_403,
     D_read_timeout, D_boom}

NoDesc == <<>>

\* ------------------------------------------------------------- dispatch
\* telebot: the text up to the first whitespace or '@', when it starts with '/'
RECURSIVE FirstWord(_)
FirstWord(t) ==
    IF t = <<>> \/ Head(t) \in Whitespace \cup {"@"} THEN <<>>
    ELSE <<Head(t)>> \o FirstWord(Tail(t))

IsCommand(m) ==
    /\ m.content_type = "text"
    /\ FirstWord(m.text) \in {T_start, T_help}

MediaTypes == {"photo", "video", "document", "audio", "voice"}

\* ------------------------------------------------------------------- state
Call(op, text, ok) == [op |-> op, text |-> text, ok |-> ok]

Init ==
    /\ pc = "idle"
    /\ message = NoMessage
    /\ lowestProgressiveOnly \in BOOLEAN
    /\ duration = -1
    /\ duration_str = <<>>
    /\ streams = <<>>
    /\ stream = NoStream
    /\ filesize = NoAttrSize
    /\ buffer = "unallocated"
    /\ excDesc = NoDesc
    /\ interim = NoText
    /\ log = <<>>

\* the text handler registered ahead of the command handler
Dispatch_TextFirst(m) ==
    IF m.content_type = "text" THEN "download_video"
    ELSE IF IsCommand(m) THEN "send_welcome"
    ELSE IF m.content_type \in MediaTypes THEN "handle_media"
    ELSE "idle"

\* handlers are tried in the order of their registration
Dispatch(m) ==
    IF IsCommand(m) THEN "send_welcome"
    ELSE IF m.content_type = "text" THEN "download_video"
    ELSE IF m.content_type \in MediaTypes THEN "handle_media"
    ELSE "idle"

\* the transport hands the next message to the first handler whose filter matches
Receive ==
    /\ pc \in {"idle", "returned", "raised"}
    /\ \E m \in Messages :
        /\ message' = m
        /\ pc' = Dispatch(m)
    /\ duration' = -1
    /\ duration_str' = <<>>
    /\ streams' = <<>>
    /\ stream' = NoStream
    /\ filesize' = NoAttrSize
    /\ buffer' = "unallocated"
    /\ excDesc' = NoDesc
    /\ interim' = NoText
    /\ log' = <<>>
    /\ UNCHANGED lowestProgressiveOnly

\* a reply made outside any try block: it is sent, or its exception leaves the handler
ReplyAndReturn(text) ==
    /\ \E ok \in BOOLEAN :
        /\ log' = Append(log, Call("reply", text, ok))
        /\ pc' = IF ok THEN "returned" ELSE "raised"
    /\ UNCHANGED <<message, lowestProgressiveOnly, duration, duration_str, streams,
                   stream, filesize, buffer, excDesc, interim>>

send_welcome ==
    /\ pc = "send_welcome"
    /\ ReplyAndReturn(WelcomeText)

handle_media ==
    /\ pc = "handle_media"
    /\ ReplyAndReturn(MediaPromptText)

\* ---------------------------------------------------------- download_video
\* a collaborator call inside the try block raises: control goes to the except clause
Raises(op, text) ==
    \E desc \in Descriptions :
        /\ log' = Append(log, Call(op, text, FALSE))
        /\ excDesc' = desc
        /\ pc' = "except"

EditOk(text, next) ==
    /\ log' = Append(log, Call("edit", text, TRUE))
    /\ interim' = text
    /\ pc' = next

\* the rejection without its return
RejectInvalid_NoReturn ==
    /\ pc = "download_video"
    /\ ~is_youtube_url(Strip(message.text))
    /\ \E ok \in BOOLEAN :
        /\ log' = Append(log, Call("reply", InvalidUrlText, ok))
        /\ pc' = IF ok THEN "fetch" ELSE "raised"
    /\ UNCHANGED <<message, lowestProgressiveOnly, duration, duration_str, streams,
                   stream, filesize, buffer, excDesc, interim>>

RejectInvalid ==
    /\ pc = "download_video"
    /\ ~is_youtube_url(Strip(message.text))
    /\ ReplyAndReturn(InvalidUrlText)

SendProcessing ==
    /\ pc = "download_video"
    /\ is_youtube_url(Strip(message.text))
    /\ \E ok \in BOOLEAN :
        /\ log' = Append(log, Call("reply", ProcessingText, ok))
        /\ interim' = IF ok THEN ProcessingText ELSE interim
        /\ pc' = IF ok THEN "fetch" ELSE "raised"
    /\ UNCHANGED <<message, lowestProgressiveOnly, duration, duration_str, streams,
                   stream, filesize, buffer, excDesc>>

FetchMetadata ==
    /\ pc = "fetch"
    /\ \/ /\ Raises("YouTube", NoText)
          /\ UNCHANGED <<duration, duration_str>>
       \/ \E d \in HandlerDurations :
            /\ log' = Append(log, Call("YouTube", NoText, TRUE))
            /\ duration' = d
            /\ duration_str' = FormatDuration(d)
            /\ pc' = "duration_check"
            /\ UNCHANGED excDesc
    /\ UNCHANGED <<message, lowestProgressiveOnly, streams, stream, filesize, buffer,
                   interim>>

DurationCheck ==
    /\ pc = "duration_check"
    /\ IF TooLong(duration)
       THEN \/ EditOk(TooLongText, "finally_return") /\ UNCHANGED excDesc
            \/ Raises("edit", TooLongText) /\ UNCHANGED interim
       ELSE \/ EditOk(DownloadingText(Title, duration_str), "select") /\ UNCHANGED excDesc
            \/ Raises("edit", DownloadingText(Title, duration_str)) /\ UNCHANGED interim
    /\ UNCHANGED <<message, lowestProgressiveOnly, duration, duration_str, streams,
                   stream, filesize, buffer>>

\* buffer = io.BytesIO(), then the three selection tiers over yt.streams
StreamSelect ==
    /\ pc = "select"
    /\ buffer' = "open"
    /\ \/ /\ Raises("streams", NoText)
          /\ UNCHANGED <<streams, stream>>
       \/ \E q \in StreamLists :
            /\ log' = Append(log, Call("streams", NoText, TRUE))
            /\ streams' = q
            /\ stream' = SelectStream(q, lowestProgressiveOnly)
            /\ pc' = "stream_check"
            /\ UNCHANGED excDesc
    /\ UNCHANGED <<message, lowestProgressiveOnly, duration, duration_str, filesize,
                   interim>>

\* the "if not stream" test left out
StreamCheck_NoTest ==
    /\ pc = "stream_check"
    /\ pc' = "size_check"
    /\ streams' = <<>>
    /\ UNCHANGED <<message, lowestProgressiveOnly, duration, duration_str, stream,
                   filesize, buffer, log, interim, excDesc>>

\* the query result is not read again after line 107: only the selected stream is kept
StreamCheck ==
    /\ pc = "stream_check"
    /\ IF stream = NoStream
       THEN \/ EditOk(NoStreamsText, "finally_return") /\ UNCHANGED excDesc
            \/ Raises("edit", NoStreamsText) /\ UNCHANGED interim
       ELSE /\ pc' = "size_check"
            /\ UNCHANGED <<log, interim, excDesc>>
    /\ streams' = <<>>
    /\ UNCHANGED <<message, lowestProgressiveOnly, duration, duration_str, stream,
                   filesize, buffer>>

SizeCheck ==
    /\ pc = "size_check"
    /\ \/ /\ Raises("filesize", NoText)
          /\ UNCHANGED <<filesize, interim>>
       \/ \E fs \in FileSizes :
            /\ filesize' = fs
            /\ IF TooLarge(fs)
               THEN \/ /\ log' = log \o <<Call("filesize", NoText, TRUE),
                                          Call("edit", TooLargeText, TRUE)>>
                       /\ interim' = TooLargeText
                       /\ pc' = "finally_return"
                       /\ UNCHANGED excDesc
                    \/ \E desc \in Descriptions :
                        /\ log' = log \o <<Call("filesize", NoText, TRUE),
                                           Call("edit", TooLargeText, FALSE)>>
                        /\ excDesc' = desc
                        /\ pc' = "except"
                        /\ UNCHANGED interim
               ELSE /\ log' = Append(log, Call("filesize", NoText, TRUE))
                    /\ pc' = "download"
                    /\ UNCHANGED <<interim, excDesc>>
    /\ UNCHANGED <<message, lowestProgressiveOnly, duration, duration_str, streams,
                   stream, buffer>>

\* an exception of stream_to_buffer swallowed
Download_Swallow ==
    /\ pc = "download"
    /\ \E ok \in BOOLEAN :
        log' = Append(log, Call("stream_to_buffer", NoText, ok))
    /\ pc' = "edit_uploading"
    /\ UNCHANGED <<message, lowestProgressiveOnly, duration, duration_str, streams,
                   stream, filesize, buffer, interim, excDesc>>

Download ==
    /\ pc = "download"
    /\ \/ Raises("stream_to_buffer", NoText)
       \/ /\ log' = Append(log, Call("stream_to_buffer", NoText, TRUE))
          /\ pc' = "edit_uploading"
          /\ UNCHANGED excDesc
    /\ UNCHANGED <<message, lowestProgressiveOnly, duration, duration_str, streams,
                   stream, filesize, buffer, interim>>

EditUploading ==
    /\ pc = "edit_uploading"
    /\ \/ EditOk(UploadingText(Title, duration_str), "send") /\ UNCHANGED excDesc
       \/ Raises("edit", UploadingText(Title, duration_str)) /\ UNCHANGED interim
    /\ UNCHANGED <<message, lowestProgressiveOnly, duration, duration_str, streams,
                   stream, filesize, buffer>>

\* buffer.getvalue() needs an open buffer
SendVideo ==
    /\ pc = "send"
    /\ \/ Raises("send_video", CaptionText(Title, duration_str))
       \/ /\ buffer = "open"
          /\ log' = Append(log, Call("send_video", CaptionText(Title, duration_str), TRUE))
          /\ pc' = "delete"
          /\ UNCHANGED excDesc
    /\ UNCHANGED <<message, lowestProgressiveOnly, duration, duration_str, streams,
                   stream, filesize, buffer, interim>>

DeleteMessage ==
    /\ pc = "delete"
    /\ \/ Raises("delete", NoText) /\ UNCHANGED interim
       \/ /\ log' = Append(log, Call("delete", NoText, TRUE))
          /\ interim' = DeletedText
          /\ pc' = "finally_return"
          /\ UNCHANGED excDesc
    /\ UNCHANGED <<message, lowestProgressiveOnly, duration, duration_str, streams,
                   stream, filesize, buffer>>

\* the except clause sends the error as a new message
Except_ReplyNew ==
    /\ pc = "except"
    /\ \E ok \in BOOLEAN :
        /\ log' = Append(log, Call("reply", ErrorText(excDesc), ok))
        /\ pc' = IF ok THEN "finally_return" ELSE "finally_raise"
    /\ UNCHANGED <<message, lowestProgressiveOnly, duration, duration_str, streams,
                   stream, filesize, buffer, excDesc, interim>>

\* the except clause only logs
Except_NoEdit ==
    /\ pc = "except"
    /\ pc' = "finally_return"
    /\ UNCHANGED <<message, lowestProgressiveOnly, duration, duration_str, streams,
                   stream, filesize, buffer, excDesc, interim, log>>

\* except Exception as e: one edit with the classified text; if that edit raises,
\* the new exception leaves the handler after the finally clause
Except ==
    /\ pc = "except"
    /\ \E ok \in BOOLEAN :
        /\ log' = Append(log, Call("edit", ErrorText(excDesc), ok))
        /\ interim' = IF ok THEN ErrorText(excDesc) ELSE interim
        /\ pc' = IF ok THEN "finally_return" ELSE "finally_raise"
    /\ UNCHANGED <<message, lowestProgressiveOnly, duration, duration_str, streams,
                   stream, filesize, buffer, excDesc>>

\* buffer.close() at the end of the try block instead of in finally
Finally_CloseOnSuccessOnly ==
    /\ pc \in {"finally_return", "finally_raise"}
    /\ IF buffer # "unallocated" /\ excDesc = NoDesc
       THEN /\ buffer' = "closed"
            /\ log' = Append(log, Call("close", NoText, TRUE))
       ELSE UNCHANGED <<buffer, log>>
    /\ pc' = IF pc = "finally_return" THEN "returned" ELSE "raised"
    /\ UNCHANGED <<message, lowestProgressiveOnly, duration, duration_str, streams,
                   stream, filesize, excDesc, interim>>

\* finally: if 'buffer' in locals(): buffer.close()
Finally ==
    /\ pc \in {"finally_return", "finally_raise"}
    /\ IF buffer # "unallocated"
       THEN /\ buffer' = "closed"
            /\ log' = Append(log, Call("close", NoText, TRUE))
       ELSE UNCHANGED <<buffer, log>>
    /\ pc' = IF pc = "finally_return" THEN "returned" ELSE "raised"
    /\ UNCHANGED <<message, lowestProgressiveOnly, duration, duration_str, streams,
                   stream, filesize, excDesc, interim>>

Next ==
    \/ Receive
    \/ send_welcome
    \/ handle_media
    \/ RejectInvalid
    \/ SendProcessing
    \/ FetchMetadata
    \/ DurationCheck
    \/ StreamSelect
    \/ StreamCheck
    \/ SizeCheck
    \/ Download
    \/ EditUploading
    \/ SendVideo
    \/ DeleteMessage
    \/ Except
    \/ Finally

Spec == Init /\ [][Next]_vars

\* ---------------------------------- the duration formatter on its own inputs
FormatInit ==
    /\ pc = "format"
    /\ message = NoMessage
    /\ lowestProgressiveOnly = TRUE
    /\ duration \in 0..MaxDuration
    /\ duration_str = <<>>
    /\ streams = <<>>
    /\ stream = NoStream
    /\ filesize = NoAttrSize
    /\ buffer = "unallocated"
    /\ excDesc = NoDesc
    /\ interim = NoText
    /\ log = <<>>

FormatStep ==
    /\ pc = "format"
    /\ duration_str' = FormatDuration(duration)
    /\ pc' = "formatted"
    /\ UNCHANGED <<message, lowestProgressiveOnly, duration, streams, stream, filesize,
                   buffer, excDesc, interim, log>>

FormatNext == FormatStep

FormatSpec == FormatInit /\ [][FormatNext]_vars

\* ------------------------------------------------------- reading the log
Terminal == pc \in {"returned", "raised"}

Called(op) == \E i \in DOMAIN log : log[i].op = op

CalledOk(op) == \E i \in DOMAIN log : log[i].op = op /\ log[i].ok

Count(op) == Cardinality({i \in DOMAIN log : log[i].op = op})

IsEdit(c) == c.op = "edit"

Edits == SelectSeq(log, IsEdit)

EditedTo(text) == \E i \in DOMAIN log : log[i].op = "edit" /\ log[i].text = text

InDownloadVideo == message.content_type = "text" /\ ~IsCommand(message)

InterimCreated == \E i \in DOMAIN log : log[i] = Call("reply", ProcessingText, TRUE)

Succeeded == CalledOk("delete")

FailedAfterInterim == Terminal /\ InterimCreated /\ ~Succeeded

TypeOK ==
    /\ message \in Messages \cup {NoMessage}
    /\ buffer \in {"unallocated", "open", "closed"}
    /\ stream \in Variants \cup {NoStream}
    /\ duration \in HandlerDurations \cup {-1}

\* ------------------------------------------------------------------ claims

\* C1: a video whose reported duration exceeds 21600 seconds gets the
\* duration-limit edit and the handler returns with no yt.streams query, no
\* stream_to_buffer and no send_video; a duration of exactly 21600 seconds is
\* never answered with the duration-limit notice.
C1_DurationLimitRejects ==
    /\ duration > 21600 =>
         /\ ~Called("streams") /\ ~Called("filesize")
         /\ ~Called("stream_to_buffer") /\ ~Called("send_video")
         /\ buffer = "unallocated"
         /\ pc # "duration_check" =>
              /\ Edits # <<>>
              /\ Edits[1].text = TooLongText
              /\ Edits[1].ok => Len(Edits) = 1 /\ pc \in {"finally_return", "returned"}
    /\ duration = 21600 => ~EditedTo(TooLongText)

C1_Witness ==
    /\ pc = "returned"
    /\ duration = 21601
    /\ log = <<Call("reply", ProcessingText, TRUE), Call("YouTube", NoText, TRUE),
               Call("edit", TooLongText, TRUE)>>

\* C2: a selected stream reporting a known size above 2000 MiB is answered with
\* the size-limit notice and stream_to_buffer and send_video are never called;
\* a stream with no filesize attribute or an unknown filesize is never rejected
\* by the size check and the handler goes on to stream_to_buffer.
C2_SizeLimitRejects ==
    /\ (filesize.known /\ filesize.bytes > 2000 * 1024 * 1024) =>
         /\ EditedTo(TooLargeText)
         /\ ~Called("stream_to_buffer") /\ ~Called("send_video")
    /\ (CalledOk("filesize") /\ filesize \in {NoAttrSize, UnknownSize}) =>
         /\ ~EditedTo(TooLargeText)
         /\ pc = "download" \/ Called("stream_to_buffer")

C2_Witness ==
    /\ pc = "returned"
    /\ filesize = KnownSize(2000 * 1024 * 1024 + 1)
    /\ interim = TooLargeText
    /\ ~Called("stream_to_buffer")

\* C3 (as stated): a run that fails after the interim message was created makes
\* exactly one edit_message_text call on the interim message.
C3_ExactlyOneEdit == FailedAfterInterim => Len(Edits) = 1

IsFailureEdit(c) ==
    c.op = "edit" /\ c.text.kind \in {"too_long", "no_streams", "too_large", "error"}

IsProgressEdit(c) == c.op = "edit" /\ c.text.kind \in {"downloading", "uploading"}

FailureEdits == SelectSeq(log, IsFailureEdit)

\* C3 (amended): a run that fails after the interim message was created makes
\* at most two progress edits (Downloading, Uploading) and after them one
\* failure-notice edit, or two when the first notice edit itself raised (the
\* second is then the except clause's); at most one failure-notice edit succeeds.
C3_OneFailureNotice ==
    FailedAfterInterim =>
        /\ Len(FailureEdits) \in {1, 2}
        /\ Len(FailureEdits) = 2 =>
             /\ ~FailureEdits[1].ok
             /\ FailureEdits[1].text.kind # "error"
             /\ FailureEdits[2].text.kind = "error"
        /\ Cardinality({i \in DOMAIN FailureEdits : FailureEdits[i].ok}) <= 1
        /\ Len(Edits) - Len(FailureEdits) <= 2
        /\ \A i, j \in DOMAIN log :
             (IsFailureEdit(log[i]) /\ IsProgressEdit(log[j])) => j < i

C3_Witness ==
    /\ FailedAfterInterim
    /\ Len(Edits) = 3
    /\ Len(FailureEdits) = 1
    /\ Called("send_video")

\* C4: once the buffer has been allocated it is closed exactly once on every
\* exit path of the handler, and never before send_video has read it.
C4_BufferClosedOnce ==
    /\ Count("close") <= 1
    /\ (Terminal /\ buffer # "unallocated") => Count("close") = 1 /\ buffer = "closed"
    /\ Called("streams") => buffer # "unallocated"
    /\ buffer = "closed" => Terminal /\ log[Len(log)].op = "close"
    /\ \A i, j \in DOMAIN log :
         (log[i].op = "close" /\ log[j].op = "send_video") => j < i

C4_Witness ==
    /\ pc = "returned"
    /\ buffer = "closed"
    /\ excDesc # NoDesc
    /\ CalledOk("send_video")
    /\ Count("close") = 1

\* C5: a text that is_youtube_url rejects gets exactly one rejection reply and
\* the handler ends there: no interim message, no YouTube(...) call, no edit,
\* download, upload or delete.
C5_InvalidUrlRejected ==
    (message.content_type = "text" /\ message.text \in {T_example, T_hello}
        /\ pc # "download_video") =>
        /\ Terminal
        /\ Len(log) = 1
        /\ log[1].op = "reply" /\ log[1].text = InvalidUrlText
        /\ interim = NoText
        /\ buffer = "unallocated"

C5_Witness ==
    /\ pc = "returned"
    /\ message.text = T_example
    /\ log = <<Call("reply", InvalidUrlText, TRUE)>>

Elems(q) == {q[i] : i \in DOMAIN q}

ProgMp4Of(q) == {x \in Elems(q) : x.progressive /\ x.ext = "mp4"}

ProgOf(q) == {x \in Elems(q) : x.progressive}

AdaptiveMp4Of(q) == {x \in Elems(q) : ~x.progressive /\ x.ext = "mp4"}

HighestIn(x, S) == x \in S /\ \A y \in S : y.resolution <= x.resolution

LowestIn(x, S) == x \in S /\ \A y \in S : x.resolution <= y.resolution

\* C6 (as stated): selection follows four tiers: highest-resolution progressive
\* mp4, else any progressive, else the highest-resolution video-only adaptive
\* mp4, else the lowest resolution overall.
C6_FourTier ==
    pc = "stream_check" =>
        IF ProgMp4Of(streams) # {} THEN HighestIn(stream, ProgMp4Of(streams))
        ELSE IF ProgOf(streams) # {} THEN stream \in ProgOf(streams)
        ELSE IF AdaptiveMp4Of(streams) # {} THEN HighestIn(stream, AdaptiveMp4Of(streams))
        ELSE IF streams # <<>> THEN LowestIn(stream, Elems(streams))
        ELSE stream = NoStream

\* C6 (amended): selection follows three tiers: the highest-resolution
\* progressive mp4, else the first progressive variant in listing order, else
\* what get_lowest_resolution() returns (nothing when it ranks progressive mp4
\* only, the lowest resolution overall when it ranks every variant); there is
\* no video-only adaptive mp4 tier.
C6_ThreeTier ==
    pc = "stream_check" =>
        IF ProgMp4Of(streams) # {} THEN HighestIn(stream, ProgMp4Of(streams))
        ELSE IF ProgOf(streams) # {}
          THEN \E i \in DOMAIN streams :
                 /\ stream = streams[i]
                 /\ stream.progressive
                 /\ \A j \in 1..(i - 1) : ~streams[j].progressive
        ELSE IF lowestProgressiveOnly \/ streams = <<>> THEN stream = NoStream
        ELSE LowestIn(stream, Elems(streams))

C6_Witness ==
    /\ pc = "stream_check"
    /\ ProgOf(streams) = {}
    /\ \E x, y \in AdaptiveMp4Of(streams) : x.resolution < y.resolution
    /\ ~HighestIn(stream, AdaptiveMp4Of(streams))

\* C7: for every variant set the selection ends in one chosen variant of the
\* set or in the no-stream outcome (the "no streams" edit, then return without
\* size query, download or upload); which of the two is fixed by the variant
\* set; the only exceptions that leave the handler come from reply_to or from
\* the except clause's own edit, never from selection.
C7_SelectionOutcome ==
    /\ pc = "stream_check" =>
         /\ stream = NoStream \/ stream \in Elems(streams)
         /\ stream = NoStream <=>
              (ProgOf(streams) = {} /\ (lowestProgressiveOnly \/ streams = <<>>))
    /\ (CalledOk("streams") /\ pc # "stream_check") =>
         IF stream = NoStream
         THEN /\ EditedTo(NoStreamsText)
              /\ ~Called("filesize") /\ ~Called("stream_to_buffer")
              /\ ~Called("send_video") /\ ~Called("delete")
              /\ (\E i \in DOMAIN log : log[i] = Call("edit", NoStreamsText, TRUE)) =>
                   pc \in {"finally_return", "returned"} /\ interim = NoStreamsText
         ELSE ~EditedTo(NoStreamsText)
    /\ pc = "raised" =>
         \E i \in DOMAIN log :
            /\ ~log[i].ok
            /\ log[i].op = "reply" \/ (log[i].op = "edit" /\ log[i].text.kind = "error")
            /\ \A j \in (i + 1)..Len(log) : log[j].op = "close"

C7_Witness ==
    /\ pc = "returned"
    /\ CalledOk("streams")
    /\ stream = NoStream
    /\ interim = NoStreamsText
    /\ buffer = "closed"

ExpectedSentence(desc) ==
    CASE desc = D_video_unavailable -> S_unavailable
      [] desc = D_upper_unavailable_403 -> S_unavailable
      [] desc = D_error_403 -> S_denied
      [] desc = D_timeout_403 -> S_denied
      [] desc = D_read_timeout -> S_timeout
      [] desc = D_boom -> S_generic

\* C8: the text the except clause writes is the apology prefix followed by the
\* one category sentence picked by first match (unavailable, 403, timeout,
\* generic), and carries nothing of the exception's description.
C8_ErrorTextClassified ==
    /\ \A i \in DOMAIN log :
         log[i].text.kind = "error" =>
            /\ log[i].op = "edit"
            /\ log[i].text = [kind |-> "error", title |-> "", dur |-> <<>>,
                              prefix |-> ApologyPrefix,
                              sentence |-> ExpectedSentence(excDesc), raw |-> <<>>]
    /\ (excDesc # NoDesc /\ pc # "except") =>
         /\ Edits # <<>>
         /\ Edits[Len(Edits)].text.kind = "error"
         /\ Edits[Len(Edits)].ok => interim = Edits[Len(Edits)].text

C8_Witness ==
    /\ pc = "returned"
    /\ excDesc = D_upper_unavailable_403
    /\ interim.prefix = ApologyPrefix
    /\ interim.sentence = S_unavailable

FailureKinds == {"too_long", "no_streams", "too_large", "error"}

\* C9 (as stated): every failure, invalid input included, is reported by an
\* edit of the interim status message and never by a new message.
C9_EveryFailureEdits ==
    \A i \in DOMAIN log :
        log[i].text.kind \in FailureKinds \cup {"invalid_url"} => log[i].op = "edit"

\* C9 (amended): every failure after the interim message was created is
\* reported by an edit of that message and never by a new message; invalid
\* input is rejected by the single reply, no interim message existing yet; a
\* request never gets more than one reply message from the handler.
C9_FailureReporting ==
    /\ \A i \in DOMAIN log :
         log[i].text.kind \in FailureKinds =>
            /\ log[i].op = "edit"
            /\ log[1] = Call("reply", ProcessingText, TRUE)
    /\ \A i \in DOMAIN log :
         log[i].text.kind = "invalid_url" => log[i].op = "reply" /\ Len(log) = 1
    /\ Count("reply") <= 1
    /\ FailedAfterInterim => FailureEdits # <<>>

C9_Witness ==
    /\ pc = "returned"
    /\ interim.kind = "error"
    /\ Count("reply") = 1
    /\ Called("stream_to_buffer")

\* the fields of a text between its colons
RECURSIVE Fields(_)
Fields(s) ==
    IF \A i \in DOMAIN s : s[i] # ":" THEN <<s>>
    ELSE LET k == CHOOSE i \in DOMAIN s : s[i] = ":" /\ \A j \in 1..(i - 1) : s[j] # ":"
         IN <<SubSeq(s, 1, k - 1)>> \o Fields(SubSeq(s, k + 1, Len(s)))

IsNumeral(f) ==
    f # <<>> /\ \A i \in DOMAIN f : \E k \in 1..10 : Digits[k] = f[i]

RECURSIVE Value(_)
Value(f) ==
    IF f = <<>> THEN 0
    ELSE 10 * Value(SubSeq(f, 1, Len(f) - 1))
         + (CHOOSE k \in 0..9 : Digits[k + 1] = f[Len(f)])

\* C10: the duration string is H:MM:SS when d >= 3600 and M:SS otherwise, with
\* H = d div 3600, M = (d mod 3600) div 60, S = d mod 60, seconds always two
\* digits and minutes two digits exactly when hours are shown; 45 -> 0:45,
\* 59 -> 0:59, 3661 -> 1:01:01.
C10_DurationFormat ==
    pc = "formatted" =>
        LET f == Fields(duration_str)
            d == duration
        IN /\ \A i \in DOMAIN f : IsNumeral(f[i])
           /\ IF d >= 3600
              THEN /\ Len(f) = 3
                   /\ Value(f[1]) = d \div 3600 /\ f[1][1] # "0"
                   /\ Value(f[2]) = (d % 3600) \div 60 /\ Len(f[2]) = 2
                   /\ Value(f[3]) = d % 60 /\ Len(f[3]) = 2
              ELSE /\ Len(f) = 2
                   /\ Value(f[1]) = d \div 60
                   /\ Len(f[1]) = IF d < 600 THEN 1 ELSE 2
                   /\ Value(f[2]) = d % 60 /\ Len(f[2]) = 2
           /\ d = 45 => duration_str = <<"0", ":", "4", "5">>
           /\ d = 59 => duration_str = <<"0", ":", "5", "9">>
           /\ d = 3661 => duration_str = <<"1", ":", "0", "1", ":", "0", "1">>

C10_Witness ==
    /\ pc = "formatted"
    /\ duration = 3661
    /\ duration_str = <<"1", ":", "0", "1", ":", "0", "1">>

\* ------------------------------------------- the URL validator on its own inputs
L_example == <<"e","x","a","m","p","l","e">>
L_channel == <<"c","h","a","n","n","e","l","/">>
L_xqv == <<"x">> \o L_qv
L_nlqv == <<"a", "\n">> \o L_qv
Id_short == <<"a","b","c","d","e">>
Id_long == VideoId \o <<"Z">>
Id_amp == <<"d","Q","w","4","&","9","W","g","X","c","Q">>

UrlInputs ==
    {pre \o sch \o www \o host \o L_dot \o tld \o L_slash \o path \o id :
        pre \in {<<>>, <<"x">>},
        sch \in {<<>>, L_http, L_https},
        www \in {<<>>, L_www},
        host \in {L_youtube, L_youtu, L_nocookie, L_example},
        tld \in {L_com, L_be},
        path \in {<<>>, L_watch, L_embed, L_v, L_xqv, L_channel, L_nlqv},
        id \in {VideoId, Id_short, Id_long, Id_amp}}

UrlInit ==
    /\ pc = "validate_url"
    /\ message \in [content_type : {"text"}, text : UrlInputs]
    /\ lowestProgressiveOnly = TRUE
    /\ duration = -1
    /\ duration_str = <<>>
    /\ streams = <<>>
    /\ stream = NoStream
    /\ filesize = NoAttrSize
    /\ buffer = "unallocated"
    /\ excDesc = NoDesc
    /\ interim = NoText
    /\ log = <<>>

UrlStep ==
    /\ pc = "validate_url"
    /\ pc' = IF is_youtube_url(message.text) THEN "url_valid" ELSE "url_invalid"
    /\ UNCHANGED <<message, lowestProgressiveOnly, duration, duration_str, streams,
                   stream, filesize, buffer, excDesc, interim, log>>

UrlNext == UrlStep

UrlSpec == UrlInit /\ [][UrlNext]_vars

UrlDecided == pc \in {"url_valid", "url_invalid"}

\* the accepted grammar: optional scheme, optional www., one of the three hosts,
\* one of the four path forms, an 11-character id, nothing after it
GrammarHosts ==
    {sch \o www \o h \o L_slash :
        sch \in {<<>>, L_http, L_https},
        www \in {<<>>, L_www},
        h \in {L_youtube \o L_dot \o L_com, L_youtu \o L_dot \o L_be,
               L_nocookie \o L_dot \o L_com}}

GrammarPaths == {L_watch, L_embed, L_v, L_xqv}

AllowedRun(t, p, n) ==
    /\ p + n - 1 <= Len(t)
    /\ {t[i] : i \in p..(p + n - 1)} \cap {"&", "=", "%", "\n"} = {}

MatchesGrammar(t) ==
    \E h \in GrammarHosts, pa \in GrammarPaths :
        /\ StartsAt(t, 1, h \o pa)
        /\ Len(t) = Len(h) + Len(pa) + 11
        /\ AllowedRun(t, Len(h) + Len(pa) + 1, 11)

\* an id token: 11 id characters, none of them a path or query separator
IdTokenAt(t, p) ==
    /\ AllowedRun(t, p, 11)
    /\ {t[i] : i \in p..(p + 10)} \cap {"/", "?"} = {}

\* the host prefixes the expression lets through
LooseHosts ==
    {sch \o www \o h \o L_dot \o tld \o L_slash :
        sch \in {<<>>, L_http, L_https},
        www \in {<<>>, L_www},
        h \in {L_youtube, L_youtu, L_nocookie},
        tld \in {L_com, L_be}}

\* the positions an id may start at: right after the host's slash, right after
\* a path form, or after a later ?v= on the same line
IdPositions(t) ==
    UNION {
        {Len(h) + 1}
        \cup {Len(h) + Len(pa) + 1 : pa \in {q \in {L_watch, L_embed, L_v} :
                                              StartsAt(t, Len(h) + 1, q)}}
        \cup {r + 3 : r \in {k \in (Len(h) + 2)..Len(t) :
                               /\ StartsAt(t, k, L_qv)
                               /\ \A i \in (Len(h) + 1)..(k - 1) : t[i] # "\n"}}
        : h \in {g \in LooseHosts : StartsAt(t, 1, g)}}

HasIdToken(t) == \E p \in IdPositions(t) : IdTokenAt(t, p)

\* C11 (as stated): is_youtube_url is true for every string of the accepted
\* grammar and false for every string with no 11-character id token in a
\* recognized position.
C11_TrueOnGrammarFalseWithoutId ==
    UrlDecided =>
        /\ MatchesGrammar(message.text) => pc = "url_valid"
        /\ ~HasIdToken(message.text) => pc = "url_invalid"

\* C11 (amended): is_youtube_url is true for every string of the accepted
\* grammar; it is true exactly when, after a recognized host prefix at the
\* start of the string, 11 characters other than & = % and newline begin right
\* after the host's slash, right after watch?v=, embed/ or v/, or after a later
\* ?v= on the same line; those 11 characters may include / and ? and anything
\* may follow them.
C11_AcceptsElevenAllowed ==
    UrlDecided =>
        /\ MatchesGrammar(message.text) => pc = "url_valid"
        /\ pc = "url_valid" <=>
             \E p \in IdPositions(message.text) : AllowedRun(message.text, p, 11)
        /\ message.text = T_watch => pc = "url_valid"
        /\ message.text = T_example => pc = "url_invalid"
        /\ message.text = L_https \o L_youtu \o L_dot \o L_be \o L_slash \o VideoId
             => pc = "url_valid"

C11_Witness ==
    /\ pc = "url_valid"
    /\ message.text = L_youtube \o L_dot \o L_com \o L_slash \o L_embed \o Id_short
    /\ ~HasIdToken(message.text)

\* C12: a /start or /help command, or a photo, video, document, audio or voice
\* message, gets exactly one fixed reply (the usage text, or the "send a link
\* as text" prompt) and never enters the download flow.
C12_FixedReplyOnly ==
    /\ (message.content_type = "text" /\ message.text \in {T_start, T_help, T_start_url}) =>
         /\ pc \in {"send_welcome", "returned", "raised"}
         /\ pc = "send_welcome" => log = <<>>
         /\ pc # "send_welcome" =>
              Len(log) = 1 /\ log[1].op = "reply" /\ log[1].text = WelcomeText
         /\ interim = NoText /\ buffer = "unallocated" /\ duration = -1
    /\ message.content_type \in {"photo", "video", "document", "audio", "voice"} =>
         /\ pc \in {"handle_media", "returned", "raised"}
         /\ pc = "handle_media" => log = <<>>
         /\ pc # "handle_media" =>
              Len(log) = 1 /\ log[1].op = "reply" /\ log[1].text = MediaPromptText
         /\ interim = NoText /\ buffer = "unallocated" /\ duration = -1

C12_Witness ==
    /\ pc = "returned"
    /\ message.text = T_start_url
    /\ log = <<Call("reply", WelcomeText, TRUE)>>

IsSideEffect(c) ==
    c.op \in {"reply", "edit", "stream_to_buffer", "send_video", "delete"}

SideEffects == SelectSeq(log, IsSideEffect)

\* C13: a successful run makes, in this order and once each, the "processing"
\* reply, the "Downloading" edit, stream_to_buffer, the "Uploading" edit,
\* send_video and the delete of the interim message; send_video is never called
\* before stream_to_buffer has returned without error, and the interim message
\* is never deleted before send_video has returned.
C13_SuccessOrder ==
    /\ Succeeded =>
         SideEffects =
            <<Call("reply", ProcessingText, TRUE),
              Call("edit", DownloadingText(Title, duration_str), TRUE),
              Call("stream_to_buffer", NoText, TRUE),
              Call("edit", UploadingText(Title, duration_str), TRUE),
              Call("send_video", CaptionText(Title, duration_str), TRUE),
              Call("delete", NoText, TRUE)>>
    /\ \A j \in DOMAIN log :
         log[j].op = "send_video" =>
            \E i \in 1..(j - 1) : log[i] = Call("stream_to_buffer", NoText, TRUE)
    /\ \A j \in DOMAIN log :
         log[j].op = "delete" =>
            \E i \in 1..(j - 1) : log[i].op = "send_video" /\ log[i].ok
    /\ interim = DeletedText => CalledOk("send_video")

C13_Witness ==
    /\ pc = "returned"
    /\ Succeeded
    /\ duration = 3661
    /\ Len(log) = 10
    /\ log[10].op = "close"

\* C14: delivery and failure exclude each other within one run: once
\* send_video has returned successfully the interim message is never edited to
\* an error notice, also when delete_message raises.
C14_DeliveryExcludesFailure ==
    \A i, j \in DOMAIN log :
        (i < j /\ log[i].op = "send_video" /\ log[i].ok)
            => ~(log[j].op = "edit" /\ log[j].text.kind = "error" /\ log[j].ok)

\* C15: when a run that created the interim message has ended, that message
\* is deleted or shows a failure notice; it is never left showing the
\* Processing, Downloading or Uploading text, whichever collaborator call
\* failed.
C15_NoStaleProgress ==
    (Terminal /\ InterimCreated) => interim.kind \in {"deleted"} \cup FailureKinds

====
